---- MODULE Spec2Model ----
(***************************************************************************)
(* Model of scripts/build_digest.py: one run of main().                    *)
(*                                                                         *)
(* Strings that the code trims or tests for emptiness (link, title, the    *)
(* API key, the response text) are sequences of one-character strings.     *)
(* Date strings are records: an empty string, a string the RFC 2822        *)
(* parser rejects, or a well-formed date denoting an instant t with or     *)
(* without a zone.  A feed entry is a function whose domain is the set of  *)
(* keys the entry has.  The rendered Markdown is kept as the list of       *)
(* blocks that line 232 joins, each block a record.                        *)
(***************************************************************************)
EXTENDS Integers, Sequences, FiniteSets, TLC

\* ---- bounds of the model ----
MaxEntries == 2      \* entries one feed returns, at most
MaxTime == 2         \* instants are 0..MaxTime; the clock reads MaxTime
MaxHours == 1        \* --hours ranges over 1..MaxHours
MaxN == 1            \* --max-per-section ranges over -1..MaxN

\* ---- program constants ----
FEEDS ==
    << [section |-> "World", urls |-> <<"world/rss.xml">>],
       [section |-> "Technology", urls |-> <<"technology/rss.xml">>],
       [section |-> "Business & Economy", urls |-> <<"business/rss.xml">>] >>

GateHour == 7
GateMinute == 0

Sections == { FEEDS[i].section : i \in 1..Len(FEEDS) }

\* ---- input domains ----
NoneVal == <<"None">>                    \* Python None as an attribute value
Absent == <<"absent">>                   \* marks a key the entry does not have
AbsentDate == [kind |-> "absent"]

Times == 0..MaxTime
EmptyDate == [kind |-> "empty"]
BadDate == [kind |-> "bad"]
DateString(t, tz) == [kind |-> "date", t |-> t, tz |-> tz]

LinkValues == { Absent, <<"x">>, <<"x", " ">>, <<"y">> }
TitleValues == { NoneVal, <<" ">>, <<" ", "t">> }
PublishedValues == { AbsentDate, EmptyDate, BadDate } \cup { DateString(t, "utc") : t \in Times }
UpdatedValues == { AbsentDate, DateString(MaxTime, "naive") }

EmptyEntry == <<>>

MkAttr(key, v, absent) == IF v = absent THEN EmptyEntry ELSE (key :> v)

Entries ==
    { MkAttr("link", l, Absent) @@ MkAttr("title", t, Absent)
        @@ MkAttr("published", p, AbsentDate) @@ MkAttr("updated", u, AbsentDate) :
        l \in LinkValues, t \in TitleValues, p \in PublishedValues, u \in UpdatedValues }

HoursValues == 1..MaxHours
MaxPerSectionValues == -1..MaxN
BerlinHours == { GateHour - 1, GateHour }
BerlinMinutes == { GateMinute, GateMinute + 1 }
ApiKeys == { Absent, <<" ">>, <<"k">> }
ResponseTexts == { NoneVal, <<" ">>, <<"s", " ">> }

\* ---- pure helpers ----
IsSpace(c) == c = " "

RECURSIVE LStrip(_)
LStrip(s) == IF s # <<>> /\ IsSpace(Head(s)) THEN LStrip(Tail(s)) ELSE s

RECURSIVE RStrip(_)
RStrip(s) ==
    IF s # <<>> /\ IsSpace(s[Len(s)]) THEN RStrip(SubSeq(s, 1, Len(s) - 1)) ELSE s

Strip(s) == RStrip(LStrip(s))

safe_get(entry, attr) ==
    LET v == IF attr \in DOMAIN entry THEN entry[attr] ELSE <<>>
    IN  IF v = NoneVal THEN <<>> ELSE Strip(v)

NoneDt == [none |-> TRUE]
UTC == "utc"

\* email.utils.parsedate_to_datetime: raises on a malformed string
ParseRaises(s) == s.kind # "date"
parsedate_to_datetime(s) == [t |-> s.t, tzinfo |-> s.tz]

EntryDatetimeKey(entry, key) ==
    IF key \in DOMAIN entry /\ entry[key] # EmptyDate /\ ~ParseRaises(entry[key])
    THEN LET dt == parsedate_to_datetime(entry[key])
         IN  IF dt.tzinfo = "naive" THEN [dt EXCEPT !.tzinfo = UTC] ELSE dt
    ELSE NoneDt

entry_datetime(entry) ==
    IF EntryDatetimeKey(entry, "published") # NoneDt
    THEN EntryDatetimeKey(entry, "published")
    ELSE EntryDatetimeKey(entry, "updated")

\* mutant: the sort without reverse=True
RECURSIVE InsertDesc_Ascending(_, _)
InsertDesc_Ascending(sorted, item) ==
    IF sorted = <<>> THEN <<item>>
    ELSE IF Head(sorted).dt.t > item.dt.t THEN <<item>> \o sorted
    ELSE <<Head(sorted)>> \o InsertDesc_Ascending(Tail(sorted), item)

\* list.sort(key=lambda x: x[0], reverse=True): stable, descending by timestamp
RECURSIVE InsertDesc(_, _)
InsertDesc(sorted, item) ==
    IF sorted = <<>> THEN <<item>>
    ELSE IF Head(sorted).dt.t < item.dt.t THEN <<item>> \o sorted
    ELSE <<Head(sorted)>> \o InsertDesc(Tail(sorted), item)

RECURSIVE SortDesc(_)
SortDesc(s) ==
    IF s = <<>> THEN <<>>
    ELSE InsertDesc(SortDesc(SubSeq(s, 1, Len(s) - 1)), s[Len(s)])

\* s[:n] with Python's meaning of a negative stop
SliceTo(s, n) ==
    LET stop == IF n < 0 THEN (IF Len(s) + n < 0 THEN 0 ELSE Len(s) + n)
                ELSE (IF n > Len(s) THEN Len(s) ELSE n)
    IN  SubSeq(s, 1, stop)

TitleLinkPairs(items) == [ i \in 1..Len(items) |-> <<items[i].title, items[i].link>> ]

(***************************************************************************)
(* State of one run.  args, berlin_now, now, seen_links, collected,        *)
(* collected_by_section, items_by_section_for_ai, total_items, ai_block    *)
(* and e are the locals of main(); sec, u and n are the positions of the   *)
(* three nested loops and pc the position in main(); out_file is the file  *)
(* at args.out.  e is cleared when the loop body ends: it is dead until    *)
(* the loop binds it again.                                                *)
(* History variables, read by the properties only: fetches counts the      *)
(* feedparser.parse calls, gemini_calls the entries into the summarizing   *)
(* function, ai_items is the argument it was handed, prompt the source     *)
(* block it sent, call the environment it met, and feed_links[s] the       *)
(* links of the entries of section s that had a title and a timestamp      *)
(* inside the window.                                                      *)
(***************************************************************************)
VARIABLES
    args, berlin_now, pc, now, sec, u, n, e,
    seen_links, collected, collected_by_section, items_by_section_for_ai,
    total_items, ai_block, out_file, fetches, gemini_calls, ai_items, prompt, call, feed_links

vars == << args, berlin_now, pc, now, sec, u, n, e,
           seen_links, collected, collected_by_section, items_by_section_for_ai,
           total_items, ai_block, out_file, fetches, gemini_calls, ai_items, prompt, call, feed_links >>

since == now - args.hours

\* the output path as the run found it: not created, not overwritten
NoFile == <<[kind |-> "untouched"]>>

\* what the summarization call met: nothing before the call
NoCall == [made |-> FALSE]

Init ==
    /\ args \in [hours : HoursValues, max_per_section : MaxPerSectionValues,
                 use_gemini : BOOLEAN]
    /\ berlin_now \in [hour : BerlinHours, minute : BerlinMinutes]
    /\ pc = "gate"
    /\ now = 0
    /\ sec = 0
    /\ u = 0
    /\ n = 0
    /\ e = EmptyEntry
    /\ seen_links = {}
    /\ collected = <<>>
    /\ collected_by_section = <<>>
    /\ items_by_section_for_ai = <<>>
    /\ total_items = 0
    /\ ai_block = <<>>
    /\ out_file = NoFile
    /\ fetches = 0
    /\ gemini_calls = 0
    /\ ai_items = <<>>
    /\ prompt = <<>>
    /\ call = NoCall
    /\ feed_links = [ s \in Sections |-> {} ]

ClockValues == { MaxTime }

\* mutant: the gate compares the hour only
PassGate_HourOnly ==
    /\ pc = "gate"
    /\ berlin_now.hour = GateHour
    /\ now' \in ClockValues
    /\ seen_links' = {}
    /\ collected_by_section' = <<>>
    /\ items_by_section_for_ai' = <<>>
    /\ total_items' = 0
    /\ sec' = 1
    /\ pc' = "section"
    /\ UNCHANGED << args, berlin_now, u, n, e, collected, ai_block, out_file,
                    fetches, gemini_calls, ai_items, prompt, call, feed_links >>

\* lines 142-150: the 07:00 Europe/Berlin gate, then now
Skip ==
    /\ pc = "gate"
    /\ ~(berlin_now.hour = GateHour /\ berlin_now.minute = GateMinute)
    /\ pc' = "done"
    /\ UNCHANGED << args, berlin_now, now, sec, u, n, e, seen_links, collected,
                    collected_by_section, items_by_section_for_ai, total_items,
                    ai_block, out_file, fetches, gemini_calls, ai_items, prompt, call, feed_links >>

PassGate ==
    /\ pc = "gate"
    /\ berlin_now.hour = GateHour /\ berlin_now.minute = GateMinute
    /\ now' \in ClockValues
    /\ seen_links' = {}
    /\ collected_by_section' = <<>>
    /\ items_by_section_for_ai' = <<>>
    /\ total_items' = 0
    /\ sec' = 1
    /\ pc' = "section"
    /\ UNCHANGED << args, berlin_now, u, n, e, collected, ai_block, out_file,
                    fetches, gemini_calls, ai_items, prompt, call, feed_links >>

\* lines 160-161: next section of FEEDS, collected = []
BeginSection ==
    /\ pc = "section"
    /\ sec <= Len(FEEDS)
    /\ collected' = <<>>
    /\ u' = 1
    /\ pc' = "url"
    /\ UNCHANGED << args, berlin_now, now, sec, n, e, seen_links,
                    collected_by_section, items_by_section_for_ai, total_items,
                    ai_block, out_file, fetches, gemini_calls, ai_items, prompt, call, feed_links >>

\* lines 163-164: feed = feedparser.parse(url)
FetchFeed ==
    /\ pc = "url"
    /\ u <= Len(FEEDS[sec].urls)
    /\ fetches' = fetches + 1
    /\ n' = 0
    /\ pc' = "entries"
    /\ UNCHANGED << args, berlin_now, now, sec, u, e, seen_links, collected,
                    collected_by_section, items_by_section_for_ai, total_items,
                    ai_block, out_file, gemini_calls, ai_items, prompt, call, feed_links >>

\* line 165: the loop takes the next entry of the feed
NextEntry ==
    /\ pc = "entries"
    /\ n < MaxEntries
    /\ \E entry \in Entries : e' = entry
    /\ n' = n + 1
    /\ pc' = "body"
    /\ UNCHANGED << args, berlin_now, now, sec, u, seen_links, collected,
                    collected_by_section, items_by_section_for_ai, total_items,
                    ai_block, out_file, fetches, gemini_calls, ai_items, prompt, call, feed_links >>

\* line 165: the feed has no more entries; on to the next url
FeedExhausted ==
    /\ pc = "entries"
    /\ u' = u + 1
    /\ pc' = "url"
    /\ UNCHANGED << args, berlin_now, now, sec, n, e, seen_links, collected,
                    collected_by_section, items_by_section_for_ai, total_items,
                    ai_block, out_file, fetches, gemini_calls, ai_items, prompt, call, feed_links >>

\* mutant: the loop body without the seen-links test of line 174
Rejected_NoSeenCheck(entry, since_, seen) ==
    \/ safe_get(entry, "link") = <<>>
    \/ safe_get(entry, "title") = <<>>
    \/ entry_datetime(entry) = NoneDt
    \/ entry_datetime(entry).t < since_

\* mutant: the loop body without the title test of line 170
Rejected_NoTitleCheck(entry, since_, seen) ==
    \/ safe_get(entry, "link") = <<>>
    \/ entry_datetime(entry) = NoneDt
    \/ entry_datetime(entry).t < since_
    \/ safe_get(entry, "link") \in seen

\* lines 170-175: the three filters of the loop body
Rejected(entry, since_, seen) ==
    LET link == safe_get(entry, "link")
        title == safe_get(entry, "title")
        dt == entry_datetime(entry)
    IN  \/ link = <<>> \/ title = <<>> \/ dt = NoneDt
        \/ dt.t < since_
        \/ link \in seen

Item(entry) ==
    [dt |-> entry_datetime(entry), title |-> safe_get(entry, "title"),
     link |-> safe_get(entry, "link")]

\* an entry with a link, a title and a timestamp inside the window
InWindow(entry, since_) ==
    /\ safe_get(entry, "link") # <<>>
    /\ safe_get(entry, "title") # <<>>
    /\ entry_datetime(entry) # NoneDt
    /\ entry_datetime(entry).t >= since_

\* mutant: the loop body without seen_links.add(link)
ProcessEntry_NoSeenAdd ==
    /\ pc = "body"
    /\ IF Rejected(e, since, seen_links)
       THEN UNCHANGED collected
       ELSE collected' = Append(collected, Item(e))
    /\ UNCHANGED seen_links
    /\ feed_links' =
         IF InWindow(e, since)
         THEN [feed_links EXCEPT ![FEEDS[sec].section] = @ \cup { safe_get(e, "link") }]
         ELSE feed_links
    /\ e' = EmptyEntry
    /\ pc' = "entries"
    /\ UNCHANGED << args, berlin_now, now, sec, u, n, collected_by_section,
                    items_by_section_for_ai, total_items, ai_block, out_file,
                    fetches, gemini_calls, ai_items, prompt, call >>

\* lines 166-178: the loop body for entry e
ProcessEntry ==
    /\ pc = "body"
    /\ IF Rejected(e, since, seen_links)
       THEN UNCHANGED << seen_links, collected >>
       ELSE /\ seen_links' = seen_links \cup { safe_get(e, "link") }
            /\ collected' = Append(collected, Item(e))
    /\ feed_links' =
         IF InWindow(e, since)
         THEN [feed_links EXCEPT ![FEEDS[sec].section] = @ \cup { safe_get(e, "link") }]
         ELSE feed_links
    /\ e' = EmptyEntry
    /\ pc' = "entries"
    /\ UNCHANGED << args, berlin_now, now, sec, u, n, collected_by_section,
                    items_by_section_for_ai, total_items, ai_block, out_file,
                    fetches, gemini_calls, ai_items, prompt, call >>

\* mutant: the pairs for the summary are taken before the truncation
EndSection_AiBeforeTruncate ==
    /\ pc = "url"
    /\ u > Len(FEEDS[sec].urls)
    /\ LET kept == SliceTo(SortDesc(collected), args.max_per_section)
           section == FEEDS[sec].section
       IN  /\ collected' = kept
           /\ collected_by_section' = (section :> kept) @@ collected_by_section
           /\ items_by_section_for_ai' =
                (section :> TitleLinkPairs(SortDesc(collected))) @@ items_by_section_for_ai
           /\ total_items' = total_items + Len(kept)
    /\ sec' = sec + 1
    /\ pc' = IF sec < Len(FEEDS) THEN "section" ELSE "ai"
    /\ UNCHANGED << args, berlin_now, now, u, n, e, seen_links, ai_block,
                    out_file, fetches, gemini_calls, ai_items, prompt, call, feed_links >>

\* lines 180-185: sort, truncate, store; then the next section or the header
EndSection ==
    /\ pc = "url"
    /\ u > Len(FEEDS[sec].urls)
    /\ LET kept == SliceTo(SortDesc(collected), args.max_per_section)
           section == FEEDS[sec].section
       IN  /\ collected' = kept
           /\ collected_by_section' = (section :> kept) @@ collected_by_section
           /\ items_by_section_for_ai' =
                (section :> TitleLinkPairs(kept)) @@ items_by_section_for_ai
           /\ total_items' = total_items + Len(kept)
    /\ sec' = sec + 1
    /\ pc' = IF sec < Len(FEEDS) THEN "section" ELSE "ai"
    /\ UNCHANGED << args, berlin_now, now, u, n, e, seen_links, ai_block,
                    out_file, fetches, gemini_calls, ai_items, prompt, call, feed_links >>

\* lines 91-98: one block per section that has items, title and link only
RECURSIVE SourceBlock(_, _)
SourceBlock(items_by_section, i) ==
    IF i > Len(FEEDS) THEN <<>>
    ELSE LET sec_ == FEEDS[i].section
             items == IF sec_ \in DOMAIN items_by_section
                      THEN items_by_section[sec_] ELSE <<>>
         IN  (IF items = <<>> THEN <<>> ELSE << [sec |-> sec_, lines |-> items] >>)
               \o SourceBlock(items_by_section, i + 1)

MissingKey == "Missing GEMINI_API_KEY environment variable"
EmptyResponse == "Gemini returned empty response"
ClientError == "client error"

\* lines 72-130: the result of gemini_summarize_whole_digest_simple_english,
\* given the environment, whether the client raises, and the response text
gemini_summarize(env_key, client_raises, resp_text) ==
    LET api_key == Strip(IF env_key = Absent THEN <<>> ELSE env_key)
        text == Strip(IF resp_text = NoneVal THEN <<>> ELSE resp_text)
    IN  IF api_key = <<>> THEN [raised |-> TRUE, ex |-> MissingKey]
        ELSE IF client_raises THEN [raised |-> TRUE, ex |-> ClientError]
        ELSE IF text = <<>> THEN [raised |-> TRUE, ex |-> EmptyResponse]
        ELSE [raised |-> FALSE, text |-> text]

Blank == [kind |-> "blank"]
AiHeader == [kind |-> "ai_header"]
AiText(text) == [kind |-> "ai_text", text |-> text]
AiFailed(ex) == [kind |-> "ai_failed", ex |-> ex]

\* mutant: the call is made whether or not --use-gemini is set
SummarizeDigest_Always ==
    /\ pc = "ai"
    /\ \E env_key \in ApiKeys, client_raises \in BOOLEAN, resp_text \in ResponseTexts :
         LET r == gemini_summarize(env_key, client_raises, resp_text)
         IN  /\ ai_block' = << AiHeader,
                               IF r.raised THEN AiFailed(r.ex) ELSE AiText(r.text),
                               Blank >>
             /\ call' = [made |-> TRUE, env_key |-> env_key,
                          client_raises |-> client_raises, resp_text |-> resp_text]
             /\ prompt' = IF Strip(IF env_key = Absent THEN <<>> ELSE env_key) = <<>>
                          THEN prompt
                          ELSE SourceBlock(items_by_section_for_ai, 1)
    /\ gemini_calls' = gemini_calls + 1
    /\ ai_items' = items_by_section_for_ai
    /\ pc' = "render"
    /\ UNCHANGED << args, berlin_now, now, sec, u, n, e, seen_links, collected,
                    collected_by_section, items_by_section_for_ai, total_items,
                    out_file, fetches, feed_links >>

\* mutant: no try/except around the call, so a failure ends the run
SummarizeDigest_Uncaught ==
    /\ pc = "ai"
    /\ args.use_gemini
    /\ \E env_key \in ApiKeys, client_raises \in BOOLEAN, resp_text \in ResponseTexts :
         LET r == gemini_summarize(env_key, client_raises, resp_text)
         IN  /\ ai_block' = IF r.raised THEN << AiHeader >>
                            ELSE << AiHeader, AiText(r.text), Blank >>
             /\ pc' = IF r.raised THEN "done" ELSE "render"
             /\ call' = [made |-> TRUE, env_key |-> env_key,
                          client_raises |-> client_raises, resp_text |-> resp_text]
             /\ prompt' = IF Strip(IF env_key = Absent THEN <<>> ELSE env_key) = <<>>
                          THEN prompt
                          ELSE SourceBlock(items_by_section_for_ai, 1)
    /\ gemini_calls' = gemini_calls + 1
    /\ ai_items' = items_by_section_for_ai
    /\ UNCHANGED << args, berlin_now, now, sec, u, n, e, seen_links, collected,
                    collected_by_section, items_by_section_for_ai, total_items,
                    out_file, fetches, feed_links >>

\* lines 195-207 with --use-gemini: the one call, its result or the failure notice
SummarizeDigest ==
    /\ pc = "ai"
    /\ args.use_gemini
    /\ \E env_key \in ApiKeys, client_raises \in BOOLEAN, resp_text \in ResponseTexts :
         LET r == gemini_summarize(env_key, client_raises, resp_text)
         IN  /\ ai_block' = << AiHeader,
                               IF r.raised THEN AiFailed(r.ex) ELSE AiText(r.text),
                               Blank >>
             /\ call' = [made |-> TRUE, env_key |-> env_key,
                          client_raises |-> client_raises, resp_text |-> resp_text]
             /\ prompt' = IF Strip(IF env_key = Absent THEN <<>> ELSE env_key) = <<>>
                          THEN prompt
                          ELSE SourceBlock(items_by_section_for_ai, 1)
    /\ gemini_calls' = gemini_calls + 1
    /\ ai_items' = items_by_section_for_ai
    /\ pc' = "render"
    /\ UNCHANGED << args, berlin_now, now, sec, u, n, e, seen_links, collected,
                    collected_by_section, items_by_section_for_ai, total_items,
                    out_file, fetches, feed_links >>

\* lines 195-196 without --use-gemini: ai_block stays empty
NoSummary ==
    /\ pc = "ai"
    /\ ~args.use_gemini
    /\ ai_block' = <<>>
    /\ pc' = "render"
    /\ UNCHANGED << args, berlin_now, now, sec, u, n, e, seen_links, collected,
                    collected_by_section, items_by_section_for_ai, total_items,
                    out_file, fetches, gemini_calls, ai_items, prompt, call, feed_links >>

\* lines 188-192
header_lines ==
    << [kind |-> "h1"], [kind |-> "window", hours |-> args.hours, generated |-> now],
       Blank >>

\* lines 211-224: one block per section of FEEDS
SectionMd(section) ==
    LET c == IF section \in DOMAIN collected_by_section
             THEN collected_by_section[section] ELSE <<>>
    IN  [kind |-> "section",
         lines |-> << [kind |-> "h2", name |-> section] >> \o
                   (IF c = <<>> THEN << [kind |-> "no_items"] >>
                    ELSE << [kind |-> "sources"] >> \o
                         [ i \in 1..Len(c) |->
                             [kind |-> "item", title |-> c[i].title, link |-> c[i].link] ])]

sections_md == [ i \in 1..Len(FEEDS) |-> SectionMd(FEEDS[i].section) ]

\* lines 226-230
footer_lines == << Blank, [kind |-> "total", n |-> total_items], Blank >>

\* line 232
content == header_lines \o ai_block \o sections_md \o footer_lines

\* lines 209-239: render the sections and the footer, write the file
WriteDigest ==
    /\ pc = "render"
    /\ out_file' = content
    /\ pc' = "done"
    /\ UNCHANGED << args, berlin_now, now, sec, u, n, e, seen_links, collected,
                    collected_by_section, items_by_section_for_ai, total_items,
                    ai_block, fetches, gemini_calls, ai_items, prompt, call, feed_links >>

Next ==
    \/ Skip
    \/ PassGate
    \/ BeginSection
    \/ FetchFeed
    \/ NextEntry
    \/ FeedExhausted
    \/ ProcessEntry
    \/ EndSection
    \/ SummarizeDigest
    \/ NoSummary
    \/ WriteDigest

Spec == Init /\ [][Next]_vars

(***************************************************************************)
(* Reading the state and the written digest                                *)
(***************************************************************************)
GatePassed == berlin_now.hour = GateHour /\ berlin_now.minute = GateMinute
Written == out_file # NoFile
Finished == pc = "done" /\ GatePassed

SectionIndex(s) == CHOOSE i \in 1..Len(FEEDS) : FEEDS[i].section = s
Range(q) == { q[i] : i \in 1..Len(q) }
Links(q) == { q[i].link : i \in 1..Len(q) }
MinOf(a, b) == IF a < b THEN a ELSE b

\* the collected list of a section once line 183 has stored it
Stored(s) == IF s \in DOMAIN collected_by_section THEN collected_by_section[s] ELSE <<>>

\* the loop's working list, while a section is being collected
InLoop == pc \in {"url", "entries", "body"}
Working == IF InLoop THEN collected ELSE <<>>

\* the "- [title](link)" lines under "## s" in the written file
DigestItems(s) ==
    IF ~Written THEN <<>>
    ELSE LET blocks == SelectSeq(out_file,
                          LAMBDA b : b.kind = "section" /\ b.lines[1].name = s)
         IN  IF blocks = <<>> THEN <<>>
             ELSE SelectSeq(blocks[1].lines, LAMBDA l : l.kind = "item")
DigestLinks(s) == Links(DigestItems(s))
DigestPairs(s) ==
    [ i \in 1..Len(DigestItems(s)) |-> <<DigestItems(s)[i].title, DigestItems(s)[i].link>> ]

\* the sections whose feeds held an entry with this link, a title and a
\* timestamp inside the window
SectionsWith(link) == { i \in 1..Len(FEEDS) : link \in feed_links[FEEDS[i].section] }
FirstOf(S) == CHOOSE i \in S : \A j \in S : i <= j
Shared == { l \in UNION { feed_links[s] : s \in Sections } :
              Cardinality(SectionsWith(l)) >= 2 }

\* C1 as stated: a link that two or more sections offer (with a title and a
\* timestamp inside the window) is listed, when main() has finished, under the
\* first of those sections and under no later one.
C1_ListedUnderFirstSection ==
    Finished =>
      \A l \in Shared :
        /\ l \in DigestLinks(FEEDS[FirstOf(SectionsWith(l))].section)
        /\ \A i \in 1..Len(FEEDS) :
             i > FirstOf(SectionsWith(l)) => l \notin DigestLinks(FEEDS[i].section)

\* C1 amended: such a link is listed under no section other than the first of
\* those sections, and it is listed under that first section unless the
\* truncation of line 181 cut it off: the first section then lists exactly
\* max-per-section items, or max-per-section is negative.
C1_OnlyUnderFirstSection ==
    Finished =>
      \A l \in Shared :
        LET first == FirstOf(SectionsWith(l))
        IN  /\ \A i \in 1..Len(FEEDS) :
                 i # first => l \notin DigestLinks(FEEDS[i].section)
            /\ \/ l \in DigestLinks(FEEDS[first].section)
               \/ args.max_per_section < 0
               \/ Len(DigestItems(FEEDS[first].section)) = args.max_per_section

\* C1 witness: a finished run in which all three sections offered the same
\* link and the digest lists it under the first of them
C1_Witness ==
    /\ Finished
    /\ args.max_per_section = 1
    /\ \E l \in Shared :
         /\ l \in DigestLinks(FEEDS[FirstOf(SectionsWith(l))].section)
         /\ Cardinality(SectionsWith(l)) = 3

\* every item collected so far in the run, section after section
RECURSIVE AllStored(_)
AllStored(i) ==
    IF i > Len(FEEDS) THEN <<>> ELSE Stored(FEEDS[i].section) \o AllStored(i + 1)

RECURSIVE AllDigestItems(_)
AllDigestItems(i) ==
    IF i > Len(FEEDS) THEN <<>> ELSE DigestItems(FEEDS[i].section) \o AllDigestItems(i + 1)

NoRepeatedLink(q) == \A i, j \in 1..Len(q) : q[i].link = q[j].link => i = j

\* C2: no link is collected or listed twice in a run: the lists of the sections
\* already stored, the list being collected and the written digest together
\* never hold two items with the same link, and every such link is in the
\* seen-links set, so that a later entry with it is skipped.
C2_NoLinkTwice ==
    /\ NoRepeatedLink(AllStored(1) \o Working)
    /\ Links(AllStored(1) \o Working) \subseteq seen_links
    /\ NoRepeatedLink(AllDigestItems(1))

\* C2 witness: a finished run in which two sections offered the same link and
\* the digest lists it
C2_Witness ==
    /\ Finished
    /\ \E l \in Shared : l \in Links(AllDigestItems(1))
    /\ Len(AllDigestItems(1)) = 2

SortedDesc(q) == \A i, j \in 1..Len(q) : i < j => q[i].dt.t >= q[j].dt.t

\* C3 as stated: for every value of --max-per-section the CLI accepts, the
\* items stored for a section are in non-increasing timestamp order and are
\* never more than max-per-section.
C3_SortedAndCapped ==
    \A s \in DOMAIN collected_by_section :
      /\ SortedDesc(collected_by_section[s])
      /\ Len(collected_by_section[s]) <= args.max_per_section

\* the step of lines 180-185 for the section being collected
SortTruncateStep == pc = "url" /\ pc' \in {"section", "ai"}

ParsedTimes(entry) ==
    { entry[k].t : k \in { f \in {"published", "updated"} \cap DOMAIN entry :
                            entry[f].kind = "date" } }

\* a title that is non-empty after trimming, a non-empty link, and a
\* timestamp parsed from published or updated that is not older than since
Qualifies(entry) ==
    /\ safe_get(entry, "title") # <<>>
    /\ safe_get(entry, "link") # <<>>
    /\ entry_datetime(entry) # NoneDt
    /\ entry_datetime(entry).t \in ParsedTimes(entry)
    /\ entry_datetime(entry).t >= since

\* C5: an entry that lacks a title, a link or a parsed timestamp, or whose
\* timestamp is older than now - hours, changes neither the collected list nor
\* the seen-links set; whatever is added to them comes from the entry in hand,
\* which qualifies; and a section stores only items the loop collected.
C5_OnlyQualifyingEntries ==
    [][ /\ (pc = "body" /\ ~Qualifies(e)) =>
             (seen_links' = seen_links /\ collected' = collected)
        /\ (pc = "body" /\ collected' # collected) =>
             /\ Qualifies(e)
             /\ collected' = Append(collected,
                  [dt |-> [t |-> entry_datetime(e).t, tzinfo |-> UTC],
                   title |-> safe_get(e, "title"), link |-> safe_get(e, "link")])
             /\ seen_links' = seen_links \cup { safe_get(e, "link") }
        /\ (pc # "body") => seen_links' \subseteq seen_links
        /\ (pc # "body") => Range(collected') \subseteq Range(collected)
        /\ \A s \in DOMAIN collected_by_section' :
             \/ s \in DOMAIN collected_by_section
                  /\ collected_by_section'[s] = collected_by_section[s]
             \/ Range(collected_by_section'[s]) \subseteq Range(collected)
        /\ (pc = "render" /\ pc' = "done") =>
             \A s \in Sections : DigestPairs(s)' = TitleLinkPairs(Stored(s)) ]_vars

\* C5 witness: the loop body holds an entry with a blank title, an unseen link
\* and a timestamp inside the window, after an earlier entry was collected
C5_Witness ==
    /\ pc = "body" /\ n = 2
    /\ Len(collected) = 1
    /\ safe_get(e, "title") = <<>>
    /\ safe_get(e, "link") # <<>>
    /\ safe_get(e, "link") \notin seen_links
    /\ entry_datetime(e) # NoneDt
    /\ entry_datetime(e).t >= since

\* the summarization step failed: the key is absent or blank, the client call
\* raised, or the response text is empty
SummaryFailed ==
    /\ call.made
    /\ \/ call.env_key = Absent
       \/ Strip(call.env_key) = <<>>
       \/ call.client_raises
       \/ call.resp_text = NoneVal
       \/ Strip(call.resp_text) = <<>>

RECURSIVE SumLen(_)
SumLen(i) == IF i > Len(FEEDS) THEN 0 ELSE Len(Stored(FEEDS[i].section)) + SumLen(i + 1)

RECURSIVE TotalUrls(_)
TotalUrls(i) == IF i > Len(FEEDS) THEN 0 ELSE Len(FEEDS[i].urls) + TotalUrls(i + 1)

AiKinds == {"ai_header", "ai_text", "ai_failed"}

\* C6: with --use-gemini, a failed summarization does not stop the run: the
\* file is written, its AI block is the heading followed by the failure
\* notice, and the section blocks and the footer carry every stored item.
C6_FailureStillWrites ==
    (Finished /\ args.use_gemini /\ SummaryFailed) =>
      /\ Written
      /\ Len(out_file) = 3 + 3 + Len(FEEDS) + 3
      /\ out_file[4] = AiHeader
      /\ out_file[5].kind = "ai_failed"
      /\ out_file[5].ex \in {MissingKey, ClientError, EmptyResponse}
      /\ out_file[6] = Blank
      /\ \A i \in 1..Len(FEEDS) :
           /\ out_file[6 + i].kind = "section"
           /\ out_file[6 + i].lines[1] = [kind |-> "h2", name |-> FEEDS[i].section]
           /\ DigestPairs(FEEDS[i].section) = TitleLinkPairs(Stored(FEEDS[i].section))
      /\ out_file[Len(out_file) - 1] = [kind |-> "total", n |-> SumLen(1)]

\* C6 witness: a finished run whose summarization failed although the key was
\* set, with an item in the digest
C6_Witness ==
    /\ Finished /\ args.use_gemini /\ SummaryFailed
    /\ call.env_key = <<"k">>
    /\ Written
    /\ Len(AllDigestItems(1)) >= 1

\* C7: without --use-gemini the summarization function is never entered and no
\* block of the written file belongs to the AI section.
C7_NoSummaryWhenDisabled ==
    ~args.use_gemini =>
      /\ gemini_calls = 0
      /\ ~call.made
      /\ \A i \in 1..Len(out_file) : out_file[i].kind \notin AiKinds

\* C7 witness: a finished run without --use-gemini that wrote a digest with an
\* item in it
C7_Witness ==
    /\ Finished /\ ~args.use_gemini /\ Written
    /\ Len(AllDigestItems(1)) >= 1

\* C8: unless Berlin time is 07:00 the run fetches nothing, makes no
\* summarization call and leaves the output file alone.
C8_GateBlocksAllWork ==
    /\ ~GatePassed =>
         /\ fetches = 0 /\ gemini_calls = 0 /\ out_file = NoFile
         /\ pc \in {"gate", "done"}
    /\ (fetches > 0 \/ gemini_calls > 0 \/ Written) => GatePassed

\* C8 witness: a run at 07:01 has ended
C8_Witness ==
    /\ pc = "done"
    /\ berlin_now.hour = GateHour /\ berlin_now.minute = GateMinute + 1

\* C10: with --use-gemini the function is entered once, after every feed was
\* fetched and every section stored, and it is handed the (title, link) pairs
\* of exactly the items the section blocks list; the prompt it sends holds
\* those pairs for each section that has any.
C10_OneCallAfterSections ==
    /\ gemini_calls <= 1
    /\ gemini_calls = 1 =>
         /\ args.use_gemini /\ GatePassed
         /\ pc \in {"render", "done"}
         /\ fetches = TotalUrls(1)
         /\ DOMAIN collected_by_section = Sections
         /\ DOMAIN ai_items = Sections
         /\ \A s \in Sections : ai_items[s] = TitleLinkPairs(Stored(s))
    /\ (Finished /\ args.use_gemini) =>
         /\ gemini_calls = 1
         /\ \A s \in Sections : ai_items[s] = DigestPairs(s)
         /\ (call.env_key # Absent /\ Strip(call.env_key) # <<>>) =>
              /\ \A i \in 1..Len(prompt) : prompt[i].lines = DigestPairs(prompt[i].sec)
              /\ \A s \in Sections :
                   DigestPairs(s) # <<>> => \E i \in 1..Len(prompt) : prompt[i].sec = s

\* C10 witness: a finished run with --use-gemini where a section was truncated
\* and the call was handed the one item that is listed
C10_Witness ==
    /\ Finished /\ args.use_gemini
    /\ gemini_calls = 1
    /\ Cardinality(seen_links) = 2
    /\ Len(AllDigestItems(1)) = 1
    /\ prompt # <<>>

====
